---------------------------- MODULE Spec2Model ----------------------------
(***************************************************************************)
(* A model of InnovaCo/sitemap: the Sitemap / SitemapEntry document model  *)
(* (lib/sitemap.js) and the directory scanner (lib/generate.js).           *)
(*                                                                         *)
(* JavaScript strings are sequences of one-character strings, so that the  *)
(* path and URL manipulation is computed character by character.           *)
(* JavaScript values are records tagged with their `typeof` in field t.    *)
(* Numbers are fixed-point, in hundredths (0.5 is 50).                     *)
(***************************************************************************)
EXTENDS Integers, Sequences, FiniteSets, TLC

VARIABLES
    phase,      \* "idle" | "running" | "done": the generate call
    opts,       \* the options object of the generate call, after extend()
    stack,      \* the live scanDir closures, outermost first
    pending,    \* filesystem operations issued and not yet completed
    trace,      \* completed filesystem operations with their results
    created,    \* items handed to a result list, in the order they were made
    returned,   \* successful scanDir callbacks: <<dir, prefix, items>>
    cb,         \* invocations of the caller's callback: [err, doc]
    uncaught,   \* exceptions that escaped a filesystem callback
    sme,        \* a SitemapEntry under test (entry specification)
    setlog,     \* the assignments made to sme, with their outcome
    doc,        \* a DOM under test (parse specification)
    parsed      \* the result of parsing doc

vars == <<phase, opts, stack, pending, trace, created, returned, cb, uncaught,
          sme, setlog, doc, parsed>>

genVars == <<phase, opts, stack, pending, trace, created, returned, cb, uncaught>>
entryVars == <<sme, setlog>>
parseVars == <<doc, parsed>>

---------------------------------------------------------------------------
(* Bounds                                                                  *)

\* the directory tree holds at most this many entries below the root
MaxNodes == 3
\* assignments made to one entry in the entry specification
MaxSets == 3
\* children of a urlset element in the parse specification
MaxChildren == 2

---------------------------------------------------------------------------
(* Strings                                                                 *)

Digits == <<"0", "1", "2", "3", "4", "5", "6", "7", "8", "9">>

IsDigit(c) == \E i \in 1..10 : Digits[i] = c

DigitVal(c) == (CHOOSE i \in 1..10 : Digits[i] = c) - 1

Letters == {"a", "b", "c", "d", "e", "f", "g", "h", "i", "j", "k", "l", "m",
            "n", "o", "p", "q", "r", "s", "t", "u", "v", "w", "x", "y", "z",
            "A", "B", "C", "D", "E", "F", "G", "H", "I", "J", "K", "L", "M",
            "N", "O", "P", "Q", "R", "S", "T", "U", "V", "W", "X", "Y", "Z"}

\* the regular expression class \w
IsWordChar(c) == c \in Letters \/ IsDigit(c) \/ c = "_"

AllDigits(s) == \A i \in 1..Len(s) : IsDigit(s[i])

RECURSIVE ToInt(_)
ToInt(s) == IF s = <<>> THEN 0
            ELSE 10 * ToInt(SubSeq(s, 1, Len(s) - 1)) + DigitVal(s[Len(s)])

RECURSIVE Pow10(_)
Pow10(n) == IF n = 0 THEN 1 ELSE 10 * Pow10(n - 1)

\* s.slice(i) with a 0-based index
Slice(s, i) == SubSeq(s, i + 1, Len(s))

Last(s) == s[Len(s)]

IndexOf(list, x) == IF \E i \in 1..Len(list) : list[i] = x
                    THEN (CHOOSE i \in 1..Len(list) :
                            list[i] = x /\ \A j \in 1..(i - 1) : list[j] # x) - 1
                    ELSE -1

RECURSIVE Flatten(_)
Flatten(ss) == IF ss = <<>> THEN <<>> ELSE Head(ss) \o Flatten(Tail(ss))

\* pieces.join(sep)
RECURSIVE JoinWith(_, _)
JoinWith(pieces, sep) ==
    IF pieces = <<>> THEN <<>>
    ELSE IF Len(pieces) = 1 THEN pieces[1]
    ELSE pieces[1] \o sep \o JoinWith(Tail(pieces), sep)

\* s.split(sep) for a one-character separator
RECURSIVE SplitAcc(_, _, _)
SplitAcc(s, sep, cur) ==
    IF s = <<>> THEN <<cur>>
    ELSE IF Head(s) = sep THEN <<cur>> \o SplitAcc(Tail(s), sep, <<>>)
    ELSE SplitAcc(Tail(s), sep, Append(cur, Head(s)))

Split(s, sep) == SplitAcc(s, sep, <<>>)

SelectSeqNonEmpty(ss) == SelectSeq(ss, LAMBDA x : x # <<>>)

---------------------------------------------------------------------------
(* JavaScript values                                                       *)

Undefined == [t |-> "undefined"]
Null == [t |-> "null"]
Bool(b) == [t |-> "boolean", b |-> b]
Num(n) == [t |-> "number", n |-> n]
NaN == [t |-> "number", nan |-> TRUE]
Str(s) == [t |-> "string", s |-> s]
Arr(a) == [t |-> "array", a |-> a]
DateV(day, ms) == [t |-> "date", day |-> day, ms |-> ms]
\* a function value: every call returns ret
Fn(ret) == [t |-> "function", ret |-> ret]

IsNaN(v) == v.t = "number" /\ "nan" \in DOMAIN v

\* !value
Falsy(v) ==
    \/ v.t \in {"undefined", "null"}
    \/ v.t = "boolean" /\ ~v.b
    \/ v.t = "number" /\ (IsNaN(v) \/ v.n = 0)
    \/ v.t = "string" /\ v.s = <<>>

\* the result of an evaluation that may throw
Ok(v) == [threw |-> FALSE, val |-> v]
Throw(e) == [threw |-> TRUE, err |-> e]

\* String(value), as parseFloat applies it to its argument.  The text of a
\* Date, a function or an object holds no leading number: "[object]".
ToStr(v) ==
    CASE v.t = "string" -> v.s
      [] v.t = "boolean" -> IF v.b THEN <<"t", "r", "u", "e">>
                            ELSE <<"f", "a", "l", "s", "e">>
      [] v.t = "array" /\ v.a # <<>> /\ v.a[1].t = "string" -> v.a[1].s
      [] OTHER -> <<"[", "o", "b", "j", "e", "c", "t", "]">>

RECURSIVE SkipSpaces(_)
SkipSpaces(s) == IF s # <<>> /\ Head(s) = " " THEN SkipSpaces(Tail(s)) ELSE s

\* the longest prefix of s made of digits
RECURSIVE DigitRun(_)
DigitRun(s) == IF s # <<>> /\ IsDigit(Head(s)) THEN <<Head(s)>> \o DigitRun(Tail(s))
               ELSE <<>>

\* the digits after a decimal point at the head of s
FractionDigits(s) == IF s # <<>> /\ Head(s) = "." THEN DigitRun(Tail(s)) ELSE <<>>

\* the number with integer digits ip and fraction digits fp, in hundredths
Magnitude(ip, fp) ==
    IF ip = <<>> /\ fp = <<>> THEN NaN
    ELSE Num(100 * ToInt(ip) + ToInt(SubSeq(fp \o <<"0", "0">>, 1, 2)))

UnsignedFloat(s) ==
    LET Rest(ip) == Magnitude(ip, FractionDigits(Slice(s, Len(ip))))
    IN  Rest(DigitRun(s))

Negate(v) == IF IsNaN(v) THEN v ELSE Num(-v.n)

\* parseFloat(s): leading blanks, a sign, digits, a fraction.  The value is
\* kept to hundredths; a text with no leading number is NaN.
parseFloat(s) ==
    LET Signed(t) == IF t # <<>> /\ Head(t) = "-" THEN Negate(UnsignedFloat(Tail(t)))
                     ELSE IF t # <<>> /\ Head(t) = "+" THEN UnsignedFloat(Tail(t))
                     ELSE UnsignedFloat(t)
    IN  Signed(SkipSpaces(s))

---------------------------------------------------------------------------
(* path (POSIX)                                                            *)

\* normalizeArray(parts, allowAboveRoot): resolves "." and ".."
RECURSIVE NormalizeArrayAcc(_, _, _)
NormalizeArrayAcc(parts, allowAboveRoot, res) ==
    IF parts = <<>> THEN res
    ELSE LET p == Head(parts) IN
         IF p = <<".">> THEN NormalizeArrayAcc(Tail(parts), allowAboveRoot, res)
         ELSE IF p = <<".", ".">> THEN
            IF res # <<>> /\ Last(res) # <<".", ".">>
            THEN NormalizeArrayAcc(Tail(parts), allowAboveRoot,
                                   SubSeq(res, 1, Len(res) - 1))
            ELSE IF allowAboveRoot
            THEN NormalizeArrayAcc(Tail(parts), allowAboveRoot, Append(res, p))
            ELSE NormalizeArrayAcc(Tail(parts), allowAboveRoot, res)
         ELSE NormalizeArrayAcc(Tail(parts), allowAboveRoot, Append(res, p))

\* path.normalize(p)
PathNormalize(p) ==
    LET isAbsolute == p # <<>> /\ p[1] = "/"
        trailingSlash == p # <<>> /\ Last(p) = "/"
        WithDot(body) == IF body = <<>> /\ ~isAbsolute THEN <<".">> ELSE body
        WithSlash(body) == IF body # <<>> /\ trailingSlash THEN Append(body, "/")
                           ELSE body
    IN  (IF isAbsolute THEN <<"/">> ELSE <<>>)
        \o WithSlash(WithDot(JoinWith(
              NormalizeArrayAcc(SelectSeqNonEmpty(Split(p, "/")), ~isAbsolute, <<>>),
              <<"/">>)))

\* path.join(a, b): the non-empty arguments joined by "/" and normalized
PathJoin(a, b) == PathNormalize(JoinWith(SelectSeqNonEmpty(<<a, b>>), <<"/">>))

\* path.extname(name) for a name without "/"
PathExtname(name) ==
    LET dots == {i \in 1..Len(name) : name[i] = "."}
        lastDot == CHOOSE i \in dots : \A j \in dots : j <= i
    IN  IF dots = {} \/ dots = 1..Len(name) \/ lastDot = 1 THEN <<>>
        ELSE SubSeq(name, lastDot, Len(name))

---------------------------------------------------------------------------
(* lib/sitemap.js: the date codec                                          *)

LeapsBefore(y) == ((y - 1) \div 4) - ((y - 1) \div 100) + ((y - 1) \div 400)

IsLeap(y) == (y % 4 = 0 /\ y % 100 # 0) \/ y % 400 = 0

MonthStart == <<0, 31, 59, 90, 120, 151, 181, 212, 243, 273, 304, 334>>

MsPerDay == 24 * 60 * 60 * 1000

\* days since 1970-01-01 of year y, 0-based month index mi, day d; a month or
\* day out of range carries over, and a year 0..99 is 1900 + year, as in Date
DaysFromCivil(y, mi, d) ==
    LET y0 == IF y >= 0 /\ y <= 99 THEN 1900 + y ELSE y
        yy == y0 + (mi \div 12)
        mm == mi % 12
    IN  365 * (yy - 1970) + LeapsBefore(yy) - LeapsBefore(1970)
        + MonthStart[mm + 1] + (IF IsLeap(yy) /\ mm >= 2 THEN 1 ELSE 0)
        + d - 1

\* new Date(y, mi, d) and Date.UTC(...) shifted by offsetMs; the local time
\* zone is taken to be UTC
MakeDate(y, mi, d, msOfDay, offsetMs) ==
    LET total == msOfDay + offsetMs
    IN  DateV(DaysFromCivil(y, mi, d) + (total \div MsPerDay), total % MsPerDay)

\* /^(\d{4})-(\d{2})-(\d{2})T(\d{2}):(\d{2})/ on the first 16 characters
MatchDateTimeHead(str) ==
    /\ Len(str) >= 16
    /\ AllDigits(SubSeq(str, 1, 4)) /\ str[5] = "-"
    /\ AllDigits(SubSeq(str, 6, 7)) /\ str[8] = "-"
    /\ AllDigits(SubSeq(str, 9, 10)) /\ str[11] = "T"
    /\ AllDigits(SubSeq(str, 12, 13)) /\ str[14] = ":"
    /\ AllDigits(SubSeq(str, 15, 16))

\* /^(Z|[+-]\d{2}:\d{2})$/
MatchTZD(tz) ==
    \/ tz = <<"Z">>
    \/ /\ Len(tz) = 6 /\ tz[1] \in {"+", "-"}
       /\ AllDigits(SubSeq(tz, 2, 3)) /\ tz[4] = ":" /\ AllDigits(SubSeq(tz, 5, 6))

\* /^(?::(\d{2})(\.\d+)?)?$/
MatchSeconds(sec) ==
    \/ sec = <<>>
    \/ /\ Len(sec) >= 3 /\ sec[1] = ":" /\ AllDigits(SubSeq(sec, 2, 3))
       /\ \/ Len(sec) = 3
          \/ Len(sec) >= 5 /\ sec[4] = "." /\ AllDigits(Slice(sec, 4))

\* the tail of a date-time after "YYYY-MM-DDThh:mm", cut into seconds and zone
TZDLen(rest) == IF rest # <<>> /\ Last(rest) = "Z" THEN 1 ELSE 6

\* the date-time form: str is "YYYY-MM-DDThh:mm" followed by sec and tz
ParseDateTime(str, sec, tz) ==
    IF MatchDateTimeHead(str) /\ MatchTZD(tz) /\ MatchSeconds(sec)
    THEN Ok(MakeDate(ToInt(SubSeq(str, 1, 4)), ToInt(SubSeq(str, 6, 7)) - 1,
                     ToInt(SubSeq(str, 9, 10)),
                     ((ToInt(SubSeq(str, 12, 13)) * 60 + ToInt(SubSeq(str, 15, 16))) * 60
                      + (IF sec = <<>> THEN 0 ELSE ToInt(SubSeq(sec, 2, 3)))) * 1000
                     + (IF Len(sec) > 4
                        THEN (ToInt(Slice(sec, 4)) * 1000) \div Pow10(Len(sec) - 4)
                        ELSE 0),
                     IF tz = <<"Z">> THEN 0
                     ELSE (IF tz[1] = "-" THEN 1 ELSE -1)
                          * (ToInt(SubSeq(tz, 2, 3)) * 60 + ToInt(SubSeq(tz, 5, 6)))
                          * 60 * 1000))
    ELSE Throw("Unknown date format")

parseDate(str) ==
    IF Len(str) = 4 /\ AllDigits(str)
    THEN Ok(MakeDate(ToInt(str), 0, 1, 0, 0))
    ELSE IF Len(str) = 7 /\ AllDigits(SubSeq(str, 1, 4)) /\ str[5] = "-"
            /\ AllDigits(SubSeq(str, 6, 7))
    THEN Ok(MakeDate(ToInt(SubSeq(str, 1, 4)), ToInt(SubSeq(str, 6, 7)) - 1, 1, 0, 0))
    ELSE IF Len(str) = 10 /\ AllDigits(SubSeq(str, 1, 4)) /\ str[5] = "-"
            /\ AllDigits(SubSeq(str, 6, 7)) /\ str[8] = "-"
            /\ AllDigits(SubSeq(str, 9, 10))
    THEN Ok(MakeDate(ToInt(SubSeq(str, 1, 4)), ToInt(SubSeq(str, 6, 7)) - 1,
                     ToInt(SubSeq(str, 9, 10)), 0, 0))
    ELSE LET Cut(rest, n) ==
                 IF Len(rest) >= n
                 THEN ParseDateTime(str, SubSeq(rest, 1, Len(rest) - n),
                                    Slice(rest, Len(rest) - n))
                 ELSE Throw("Unknown date format")
         IN  Cut(Slice(str, 16), TZDLen(Slice(str, 16)))

---------------------------------------------------------------------------
(* lib/sitemap.js: SitemapEntry                                            *)

\* the shared sentinel object {}
GENERATE_MAP == [marker |-> TRUE]

DEFAULT_PRIORITY == Num(50)

nodeMapping == [loc |-> "url", lastmod |-> "lastModified",
                changefreq |-> "changeFrequency", priority |-> "priority"]

\* new SitemapEntry() before readNode
NewSitemapEntry == [url |-> Null, changeFrequency |-> Null,
                    _lastModified |-> Null, _priority |-> DEFAULT_PRIORITY]

IsEntry(item) == "url" \in DOMAIN item

\* item.url of an item of a Sitemap: undefined on the sentinel
ItemUrl(item) == IF IsEntry(item) THEN item.url ELSE Undefined

\* the value the lastModified setter tests with instanceof Date
ToDate(value) ==
    CASE value.t = "number" ->
            IF IsNaN(value) THEN Ok([t |-> "date", invalid |-> TRUE])
            ELSE Ok(DateV((value.n \div 100) \div MsPerDay, (value.n \div 100) % MsPerDay))
      [] value.t = "string" -> parseDate(value.s)
      [] OTHER -> Ok(value)

\* the lastModified setter
SetLastModified(e, value) ==
    LET Store(v) ==
            IF v.threw THEN v
            ELSE IF v.val.t = "date" THEN Ok([e EXCEPT !._lastModified = v.val])
            ELSE Throw("Invalid lastModified value type, should be number, string or date")
    IN  IF value.t = "undefined" THEN Ok(e) ELSE Store(ToDate(value))

\* the priority setter without its guard for a falsy value
SetPriorityNoGuard(e, value) ==
    LET Store(v) == IF IsNaN(v) THEN Throw("Invalid priority value: NaN")
                    ELSE Ok([e EXCEPT !._priority = v])
    IN  IF value.t # "number" THEN Store(parseFloat(ToStr(value)))
        ELSE Store(value)

\* the priority setter
SetPriority(e, value) ==
    LET Store(v) == IF IsNaN(v) THEN Throw("Invalid priority value: NaN")
                    ELSE Ok([e EXCEPT !._priority = v])
    IN  IF Falsy(value) THEN Ok(e)
        ELSE IF value.t # "number" THEN Store(parseFloat(ToStr(value)))
        ELSE Store(value)

\* this[field] = value
SetField(e, field, value) ==
    CASE field = "url" -> Ok([e EXCEPT !.url = value])
      [] field = "changeFrequency" -> Ok([e EXCEPT !.changeFrequency = value])
      [] field = "lastModified" -> SetLastModified(e, value)
      [] field = "priority" -> SetPriority(e, value)

\* child.name of a DOM node: text nodes have none
NodeName(node) == IF "name" \in DOMAIN node THEN node.name ELSE ""

RECURSIVE innerText(_)
innerText(node) ==
    IF node.type = "text" THEN node.data
    ELSE IF node.type = "tag"
    THEN Flatten([i \in 1..Len(node.children) |-> innerText(node.children[i])])
    ELSE <<>>

RECURSIVE readNodeFrom(_, _)
readNodeFrom(e, children) ==
    LET Rest(r) == IF r.threw THEN r ELSE readNodeFrom(r.val, Tail(children))
    IN  IF children = <<>> THEN Ok(e)
        ELSE IF NodeName(Head(children)) \in DOMAIN nodeMapping
        THEN Rest(SetField(e, nodeMapping[NodeName(Head(children))],
                           Str(innerText(Head(children)))))
        ELSE Rest(Ok(e))

readNode(e, node) == readNodeFrom(e, node.children)

\* new SitemapEntry(node)
SitemapEntryOf(node) == readNode(NewSitemapEntry, node)

---------------------------------------------------------------------------
(* lib/sitemap.js: Sitemap                                                 *)

\* the branch of parseUrlsetNode that appends the sentinel
IsGenerateNode(node, child) == node.type = "pi"

RECURSIVE parseUrlsetFrom(_, _, _)
parseUrlsetFrom(node, children, out) ==
    LET Rest(r) == IF r.threw THEN r
                   ELSE parseUrlsetFrom(node, Tail(children), out \o r.val)
    IN  IF children = <<>> THEN Ok(out)
        ELSE IF NodeName(Head(children)) = "url"
        THEN LET Push(e) == IF e.threw THEN e ELSE Ok(<<e.val>>)
             IN  Rest(Push(SitemapEntryOf(Head(children))))
        ELSE IF IsGenerateNode(node, Head(children)) THEN Rest(Ok(<<GENERATE_MAP>>))
        ELSE Rest(Ok(<<>>))

parseUrlsetNode(node) == parseUrlsetFrom(node, node.children, <<>>)

\* parseSitemap on the DOM htmlparser.parseDOM returns for the text
RECURSIVE parseSitemapFrom(_, _)
parseSitemapFrom(dom, result) ==
    LET Rest(r) == IF r.threw THEN r
                   ELSE parseSitemapFrom(Tail(dom), result \o r.val)
    IN  IF dom = <<>> THEN Ok(result)
        ELSE IF NodeName(Head(dom)) = "urlset" THEN Rest(parseUrlsetNode(Head(dom)))
        ELSE Rest(Ok(<<>>))

parseSitemap(dom) == parseSitemapFrom(dom, <<>>)

\* a text, given by the DOM htmlparser2 (not part of the repository) builds
Text(dom) == [t |-> "string", dom |-> dom]

\* new Sitemap(contents)
Sitemap(contents) ==
    LET Wrap(r) == IF r.threw THEN r ELSE Ok([items |-> r.val])
    IN  IF contents.t = "string" THEN Wrap(parseSitemap(contents.dom))
        ELSE IF contents.t = "array" THEN Ok([items |-> contents.a])
        ELSE IF Falsy(contents) THEN Ok([items |-> <<>>])
        ELSE Throw("Invalid sitemap contents, expected array or string")

---------------------------------------------------------------------------
(* lib/generate.js: options and URLs                                       *)

S_html == <<".", "h", "t", "m", "l">>
S_htm == <<".", "h", "t", "m">>
S_index_html == <<"i", "n", "d", "e", "x">> \o S_html
S_index_htm == <<"i", "n", "d", "e", "x">> \o S_htm
S_sitemap_xml == <<"s", "i", "t", "e", "m", "a", "p", ".", "x", "m", "l">>

defaultOptions ==
    [ext |-> Arr(<<Str(S_html), Str(S_htm)>>),
     index |-> Arr(<<Str(S_index_html), Str(S_index_htm)>>),
     lastModified |-> Bool(TRUE),
     includeSitemap |-> Bool(TRUE)]

\* xtend(a, b): a new object, b's properties over a's
extend(a, b) == [k \in DOMAIN a \cup DOMAIN b |-> IF k \in DOMAIN b THEN b[k] ELSE a[k]]

\* o[k]: undefined for a property the object does not have
Get(o, k) == IF k \in DOMAIN o THEN o[k] ELSE Undefined

\* createUrl without the join with the prefix
createUrlNoPrefix(entry, prefix, ensureFinalSlash) ==
    LET Stripped(e) == IF e # <<>> /\ e[1] = "/" THEN Slice(e, 1) ELSE e
        LeadingSlash(e) == IF e = <<>> \/ e[1] # "/" THEN <<"/">> \o e ELSE e
        FinalSlash(e) == IF ensureFinalSlash /\ Last(e) # "/" THEN Append(e, "/") ELSE e
    IN  IF entry.t # "string" THEN Throw("TypeError: cannot read property '0'")
        ELSE Ok(FinalSlash(LeadingSlash(Stripped(entry.s))))

createUrl(entry, prefix, ensureFinalSlash) ==
    LET Stripped(e) == IF e # <<>> /\ e[1] = "/" THEN Slice(e, 1) ELSE e
        Prefixed(e) == IF ~Falsy(prefix) THEN PathNormalize(PathJoin(prefix.s, e)) ELSE e
        LeadingSlash(e) == IF e = <<>> \/ e[1] # "/" THEN <<"/">> \o e ELSE e
        FinalSlash(e) == IF ensureFinalSlash /\ Last(e) # "/" THEN Append(e, "/") ELSE e
    IN  IF entry.t # "string" THEN Throw("TypeError: cannot read property '0'")
        ELSE Ok(FinalSlash(LeadingSlash(Prefixed(Stripped(entry.s)))))

callIfFn(fn) == IF fn.t = "function" THEN fn.ret ELSE fn

createSitemapEntry(entry, options, stats, isFile) ==
    LET WithLastModified(r) ==
            IF r.threw THEN r
            ELSE IF Get(options, "lastModified") = Bool(TRUE)
            THEN SetLastModified(r.val, stats.mtime)
            ELSE SetLastModified(r.val, callIfFn(Get(options, "lastModified")))
        WithUrl(url) ==
            IF url.threw THEN url
            ELSE WithLastModified(
                    SetPriority([NewSitemapEntry EXCEPT
                                   !.url = Str(url.val),
                                   !.changeFrequency =
                                       callIfFn(Get(options, "changeFrequency"))],
                                callIfFn(Get(options, "priority"))))
    IN  WithUrl(createUrl(Str(entry), Get(options, "prefix"), isFile))

\* the predicate filterEntries applies to an entry other than a kept sitemap.xml
ExtFilter(entry, extFilter) ==
    IF extFilter.t = "function" THEN ~Falsy(extFilter.ret)
    ELSE LET ext == PathExtname(entry)
         IN  ext = <<>> \/ IndexOf(extFilter.a, Str(ext)) # -1

filterEntries(entries, extFilter, keepSitemap) ==
    SelectSeq(entries, LAMBDA entry :
        \/ ~Falsy(keepSitemap) /\ entry = S_sitemap_xml
        \/ ExtFilter(entry, extFilter))

\* scanDir without the short-circuit to getEmbeddedSitemap
HasEmbeddedSitemapNever(entries, options) == FALSE

\* the test scanDir makes before it hands the directory to getEmbeddedSitemap
HasEmbeddedSitemap(entries, options) ==
    ~Falsy(Get(options, "includeSitemap")) /\ IndexOf(entries, S_sitemap_xml) # -1

\* /^\w+:/.test(url): the argument is converted to a string first
reProto(url) ==
    LET s == CASE url.t = "string" -> url.s
               [] url.t = "null" -> <<"n", "u", "l", "l">>
               [] OTHER -> <<"u", "n", "d", "e", "f", "i", "n", "e", "d">>
    IN  \E n \in 1..Len(s) :
            /\ n < Len(s) /\ s[n + 1] = ":"
            /\ \A i \in 1..n : IsWordChar(s[i])

\* the map of getEmbeddedSitemap without the test for a scheme
RewriteItemAlways(item, options) ==
    LET Put(u) == IF u.threw THEN u ELSE Ok([item EXCEPT !.url = Str(u.val)])
    IN  Put(createUrl(ItemUrl(item), Get(options, "prefix"), FALSE))

\* the function getEmbeddedSitemap maps over the items
RewriteItem(item, options) ==
    LET Put(u) == IF u.threw THEN u ELSE Ok([item EXCEPT !.url = Str(u.val)])
    IN  IF ~reProto(ItemUrl(item))
        THEN Put(createUrl(ItemUrl(item), Get(options, "prefix"), FALSE))
        ELSE Ok(item)

RECURSIVE RewriteItems(_, _, _)
RewriteItems(items, options, out) ==
    LET Rest(r) == IF r.threw THEN r
                   ELSE RewriteItems(Tail(items), options, Append(out, r.val))
    IN  IF items = <<>> THEN Ok(out) ELSE Rest(RewriteItem(Head(items), options))

---------------------------------------------------------------------------
(* The environment: the caller's options and the filesystem's answers      *)

Root == <<"/", "s">>

S_a_html == <<"a">> \o S_html
S_d == <<"d">>

\* names a directory listing may hold
Names == {S_index_html, S_a_html, S_d, S_sitemap_xml}

Tag(name, children) == [type |-> "tag", name |-> name, children |-> children]
TextNode(data) == [type |-> "text", data |-> data]
\* htmlparser2 gives a processing instruction the type "directive"
Directive(name) == [type |-> "directive", name |-> name]
Field(name, text) == Tag(name, <<TextNode(text)>>)

UrlRel == Tag("url", <<Field("loc", <<"f", "/">>), Field("changefreq", <<"d", "a", "i", "l", "y">>)>>)
UrlSlash == Tag("url", <<Field("loc", <<"/", "g">>), Field("priority", <<"1">>)>>)
UrlAbs == Tag("url", <<Field("loc", <<"h", ":", "x">>)>>)
UrlDot == Tag("url", <<Field("loc", <<".", "/", "f">>)>>)
UrlNoLoc == Tag("url", <<Field("changefreq", <<"d", "a", "i", "l", "y">>)>>)
UrlBadPriority == Tag("url", <<Field("loc", <<"f">>), Field("priority", <<"a", "b", "c">>)>>)
UrlZeroPriority == Tag("url", <<Field("loc", <<"f">>), Field("priority", <<"0">>)>>)
GeneratePI == Directive("?sitemap-generate")

\* texts a sitemap.xml may hold
Docs == {Text(<<Tag("urlset", <<UrlRel, UrlSlash, UrlAbs>>)>>),
         Text(<<Tag("urlset", <<UrlAbs, GeneratePI, UrlDot>>)>>),
         Text(<<Tag("urlset", <<UrlNoLoc>>)>>),
         Text(<<Tag("urlset", <<UrlBadPriority>>)>>),
         Text(<<>>)}

\* options a caller may pass
Configs == {[x \in {} |-> Undefined],
            [includeSitemap |-> Bool(FALSE)],
            [priority |-> Str(<<"a", "b", "c">>)],
            [priority |-> Fn(Str(<<"0", ".", "8">>)),
             changeFrequency |-> Str(<<"d", "a", "i", "l", "y">>),
             lastModified |-> Str(<<"2", "0", "1", "4">>)],
            [lastModified |-> Bool(FALSE), includeSitemap |-> Bool(FALSE)]}

Err(op, path) == [t |-> "error", op |-> op, path |-> path]

Mtime == DateV(16000, 0)

Stats(kind) == [kind |-> kind, mtime |-> Mtime]

RECURSIVE ListedCount(_)
ListedCount(tr) ==
    IF tr = <<>> THEN 0
    ELSE (IF Head(tr).op = "readdir" /\ ~Head(tr).failed THEN Len(Head(tr).entries) ELSE 0)
         + ListedCount(Tail(tr))

\* the listings of a directory in a tree with `room` entries left
Listings(room) ==
    UNION {{l \in [1..n -> Names] : \A i, j \in 1..n : l[i] = l[j] => i = j} :
            n \in 0..(IF room < Cardinality(Names) THEN room ELSE Cardinality(Names))}

---------------------------------------------------------------------------
(* lib/generate.js: scanDir                                                *)

\* the part of the state the scan's continuations work on
Scan == [stack |-> stack, pending |-> pending, returned |-> returned, cb |-> cb]

Top(s) == Last(s.stack)

SetTop(s, f) == [s EXCEPT !.stack[Len(s.stack)] = f]

\* scanDir(dir, options, callback) up to its readdir call
scanDir(s, dir, options) ==
    [s EXCEPT !.stack = Append(@, [dir |-> dir, options |-> options,
                                   entries |-> <<>>, result |-> <<>>]),
              !.pending = @ \cup {[op |-> "readdir", path |-> dir]}]

\* the callback of module.exports
TopCallback(err, items) ==
    [err |-> err, doc |-> IF items.t = "array" THEN Sitemap(items).val ELSE Null]

\* result = result.concat(data)
ResultConcat(result, data) == result \o data

RECURSIVE Callback(_, _, _), NextFn(_, _, _)

\* a stat issued for every remaining entry at once
IssueStatAll(s) ==
    LET f == Top(s)
    IN  [SetTop(s, [f EXCEPT !.entries = <<>>])
            EXCEPT !.pending = @ \cup {[op |-> "stat", path |-> PathJoin(f.dir, f.entries[i]),
                                        entry |-> f.entries[i]] : i \in 1..Len(f.entries)}]

\* entries.shift() and the fs.stat call on it
IssueStat(s) ==
    LET f == Top(s)
        entry == Head(f.entries)
    IN  [SetTop(s, [f EXCEPT !.entries = Tail(@)])
            EXCEPT !.pending = @ \cup {[op |-> "stat", path |-> PathJoin(f.dir, entry),
                                        entry |-> entry]}]

\* next(err, data) without its test of err
NextFnIgnoringErr(s, err, data) ==
    LET f == Top(s)
        s1 == IF data.t = "array"
              THEN SetTop(s, [f EXCEPT !.result = ResultConcat(@, data.a)])
              ELSE s
    IN  IF Top(s1).entries = <<>>
        THEN Callback(s1, Null, Arr(Top(s1).result))
        ELSE IssueStat(s1)

\* the callback a scanDir closure was given: the parent's next, or the
\* callback of module.exports
Callback(s, err, data) ==
    LET f == Top(s)
        s1 == [s EXCEPT !.stack = SubSeq(@, 1, Len(@) - 1),
                        !.returned = IF Falsy(err)
                                     THEN Append(@, [dir |-> f.dir, options |-> f.options,
                                                     items |-> data.a])
                                     ELSE @]
    IN  IF s1.stack = <<>>
        THEN [s1 EXCEPT !.cb = Append(@, TopCallback(err, data))]
        ELSE NextFn(s1, err, data)

\* next(err, data) of the closure on top
NextFn(s, err, data) ==
    IF ~Falsy(err) THEN Callback(s, err, Undefined)
    ELSE LET f == Top(s)
             s1 == IF data.t = "array"
                   THEN SetTop(s, [f EXCEPT !.result = ResultConcat(@, data.a)])
                   ELSE s
         IN  IF Top(s1).entries = <<>>
             THEN Callback(s1, Null, Arr(Top(s1).result))
             ELSE IssueStat(s1)

\* completes a pending operation: the state the continuation starts from
Complete(op) == [Scan EXCEPT !.pending = @ \ {op}]

Commit(s) ==
    /\ stack' = s.stack
    /\ pending' = s.pending
    /\ returned' = s.returned
    /\ cb' = s.cb

\* module.exports(dir, options, callback)
Generate(o) ==
    /\ phase = "idle"
    /\ phase' = "called"
    /\ opts' = extend(defaultOptions, o)
    /\ Commit(scanDir(Scan, Root, opts'))
    /\ UNCHANGED <<trace, created, uncaught, entryVars, parseVars>>

\* the callback of fs.readdir
ReaddirDone(op, failed, listing) ==
    /\ op \in pending /\ op.op = "readdir"
    /\ trace' = Append(trace, [op |-> "readdir", path |-> op.path, failed |-> failed,
                               entries |-> listing])
    /\ LET Listed(s, f, entries) ==
               IF HasEmbeddedSitemap(entries, f.options)
               THEN Commit([s EXCEPT !.pending = @ \cup
                               {[op |-> "readFile",
                                 path |-> PathJoin(f.dir, S_sitemap_xml)]}])
               ELSE Commit(NextFn(SetTop(s, [f EXCEPT !.entries = entries]),
                                  Undefined, Undefined))
           Frame(s, f) ==
               IF failed THEN Commit(Callback(s, Err("readdir", op.path), Undefined))
               ELSE Listed(s, f, filterEntries(listing, Get(f.options, "ext"),
                                               Get(f.options, "includeSitemap")))
       IN  Frame(Complete(op), Top(Complete(op)))
    /\ UNCHANGED <<phase, opts, created, uncaught, entryVars, parseVars>>

\* options.index && options.index.indexOf(entry) !== -1
IsIndex(entry, options) ==
    ~Falsy(Get(options, "index")) /\ IndexOf(Get(options, "index").a, Str(entry)) # -1

\* the callback of fs.stat
StatDone(op, failed, kind) ==
    /\ op \in pending /\ op.op = "stat"
    /\ trace' = Append(trace, [op |-> "stat", path |-> op.path, failed |-> failed,
                               kind |-> kind])
    /\ LET File(s, f, isIndex, e) ==
               IF e.threw
               THEN /\ Commit(s)
                    /\ uncaught' = Append(uncaught, e.err)
                    /\ UNCHANGED created
               ELSE /\ Commit(NextFn(SetTop(s, [f EXCEPT !.result = Append(@, e.val)]),
                                     Undefined, Undefined))
                    /\ created' = Append(created, [kind |-> "file", dir |-> f.dir,
                                                   name |-> op.entry, index |-> isIndex,
                                                   item |-> e.val])
                    /\ UNCHANGED uncaught
           Frame(s, f) ==
               IF failed
               THEN Commit(NextFn(s, Err("stat", op.path), Undefined))
                    /\ UNCHANGED <<created, uncaught>>
               ELSE IF kind = "file"
               THEN File(s, f, IsIndex(op.entry, f.options),
                         createSitemapEntry(
                             IF IsIndex(op.entry, f.options) THEN <<>> ELSE op.entry,
                             f.options, Stats(kind), IsIndex(op.entry, f.options)))
               ELSE IF kind = "dir"
               THEN /\ Commit(scanDir(s, op.path,
                         extend(f.options,
                                [prefix |-> Str(createUrl(Str(op.entry),
                                                          Get(f.options, "prefix"),
                                                          TRUE).val)])))
                    /\ UNCHANGED <<created, uncaught>>
               ELSE Commit(NextFn(s, Undefined, Undefined))
                    /\ UNCHANGED <<created, uncaught>>
       IN  Frame(Complete(op), Top(Complete(op)))
    /\ UNCHANGED <<phase, opts, entryVars, parseVars>>

\* the callback of fs.readFile in getEmbeddedSitemap
ReadFileDone(op, failed, contents) ==
    /\ op \in pending /\ op.op = "readFile"
    /\ trace' = Append(trace, [op |-> "readFile", path |-> op.path, failed |-> failed,
                               contents |-> contents])
    /\ LET Mapped(s, f, sitemap, items) ==
               IF items.threw
               THEN /\ Commit(s)
                    /\ uncaught' = Append(uncaught, items.err)
                    /\ UNCHANGED created
               ELSE /\ Commit(Callback(s, Null, Arr(items.val)))
                    /\ created' = created \o
                          [i \in 1..Len(items.val) |->
                              [kind |-> "embedded", dir |-> f.dir, ix |-> i,
                               orig |-> sitemap.items[i], item |-> items.val[i]]]
                    /\ UNCHANGED uncaught
           Parsed(s, f, sitemap) ==
               IF sitemap.threw
               THEN Commit(Callback(s, [t |-> "error", op |-> "parse",
                                        msg |-> sitemap.err], Undefined))
                    /\ UNCHANGED <<created, uncaught>>
               ELSE Mapped(s, f, sitemap.val,
                           RewriteItems(sitemap.val.items, f.options, <<>>))
           Frame(s, f) ==
               IF failed
               THEN Commit(Callback(s, Err("readFile", op.path), Undefined))
                    /\ UNCHANGED <<created, uncaught>>
               ELSE Parsed(s, f, Sitemap(contents))
       IN  Frame(Complete(op), Top(Complete(op)))
    /\ UNCHANGED <<phase, opts, entryVars, parseVars>>

NoEntryTest == /\ sme = NewSitemapEntry /\ setlog = <<>>
NoParseTest == /\ doc = <<>> /\ parsed = Undefined

Init ==
    /\ phase = "idle"
    /\ opts = defaultOptions
    /\ stack = <<>>
    /\ pending = {}
    /\ trace = <<>>
    /\ created = <<>>
    /\ returned = <<>>
    /\ cb = <<>>
    /\ uncaught = <<>>
    /\ NoEntryTest
    /\ NoParseTest

Next ==
    \/ \E o \in Configs : Generate(o)
    \/ \E op \in pending : ReaddirDone(op, TRUE, <<>>)
    \/ \E op \in pending : \E l \in Listings(MaxNodes - ListedCount(trace)) :
          ReaddirDone(op, FALSE, l)
    \/ \E op \in pending : StatDone(op, TRUE, "none")
    \/ \E op \in pending : \E k \in {"file", "dir", "other"} : StatDone(op, FALSE, k)
    \/ \E op \in pending : ReadFileDone(op, TRUE, Text(<<>>))
    \/ \E op \in pending : \E c \in Docs : ReadFileDone(op, FALSE, c)

Spec == Init /\ [][Next]_vars

---------------------------------------------------------------------------
(* The entry specification: assignments to one SitemapEntry                *)

PriorityInputs ==
    {Num(0), Str(<<>>), Null, Undefined, Bool(FALSE), NaN,
     Num(80), Num(100), Str(<<"0", ".", "8">>), Str(<<"1">>), Str(<<"0">>),
     Str(<<"a", "b", "c">>)}

LastModifiedInputs ==
    {Undefined, Null, Bool(FALSE), Num(100000), Mtime,
     Str(<<"2", "0", "1", "4">>), Str(<<"a", "b", "c">>)}

\* sme[field] = value: a setter that throws leaves the entry as it was
Assign(field, value) ==
    /\ Len(setlog) < MaxSets
    /\ LET Done(r) ==
               /\ sme' = IF r.threw THEN sme ELSE r.val
               /\ setlog' = Append(setlog, [field |-> field, value |-> value,
                                            threw |-> r.threw, before |-> sme])
       IN  Done(SetField(sme, field, value))
    /\ UNCHANGED <<genVars, parseVars>>

NextEntry ==
    \/ \E v \in PriorityInputs : Assign("priority", v)
    \/ \E v \in LastModifiedInputs : Assign("lastModified", v)

SpecEntry == Init /\ [][NextEntry]_vars

---------------------------------------------------------------------------
(* The parse specification: new Sitemap(text)                              *)

ChildInputs == {UrlRel, UrlSlash, UrlBadPriority, GeneratePI,
                TextNode(<<" ">>), Tag("foo", <<>>)}

ChildLists == UNION {[1..n -> ChildInputs] : n \in 0..MaxChildren}

DomInputs ==
    {<<Tag("urlset", c)>> : c \in ChildLists}
    \cup {<<Directive("?xml"), Tag("urlset", c)>> : c \in ChildLists}

InitParse ==
    /\ phase = "idle"
    /\ opts = defaultOptions
    /\ stack = <<>>
    /\ pending = {}
    /\ trace = <<>>
    /\ created = <<>>
    /\ returned = <<>>
    /\ cb = <<>>
    /\ uncaught = <<>>
    /\ NoEntryTest
    /\ doc \in DomInputs
    /\ parsed = Undefined

\* module.exports.parse(contents)
Parse ==
    /\ parsed = Undefined
    /\ parsed' = Sitemap(Text(doc))
    /\ UNCHANGED <<genVars, entryVars, doc>>

NextParse == Parse

SpecParse == InitParse /\ [][NextParse]_vars

---------------------------------------------------------------------------
(* What the history variables say about a scan                             *)

Succeeded == cb # <<>> /\ Falsy(cb[1].err)

IncludeSitemap == ~Falsy(Get(opts, "includeSitemap"))

\* path p lies strictly below directory d
Under(p, d) == Len(p) > Len(d) + 1 /\ SubSeq(p, 1, Len(d) + 1) = d \o <<"/">>

ReaddirOk(i) == trace[i].op = "readdir" /\ ~trace[i].failed
ReadFileOk(i) == trace[i].op = "readFile" /\ ~trace[i].failed

\* what readdir answered for directory d
ListingAt(d) ==
    trace[CHOOSE i \in 1..Len(trace) : ReaddirOk(i) /\ trace[i].path = d].entries

\* the directories whose listing holds sitemap.xml
EmbeddedDirs ==
    {trace[i].path : i \in {j \in 1..Len(trace) :
                              ReaddirOk(j) /\ IndexOf(trace[j].entries, S_sitemap_xml) # -1}}

HasReadSitemap(d) ==
    \E i \in 1..Len(trace) : ReadFileOk(i) /\ trace[i].path = PathJoin(d, S_sitemap_xml)

\* the text read from d/sitemap.xml
ContentsAt(d) ==
    trace[CHOOSE i \in 1..Len(trace) :
            ReadFileOk(i) /\ trace[i].path = PathJoin(d, S_sitemap_xml)].contents

\* the names d1, ..., dk of directory path /s/d1/.../dk
RelDirs(d) == LET segs == Split(d, "/")
              IN  SubSeq(segs, Len(Split(Root, "/")) + 1, Len(segs))

\* "/" for the root, "/d1/.../dk/" below it
DirUrl(rel) == <<"/">> \o Flatten([i \in 1..Len(rel) |-> rel[i] \o <<"/">>])

\* the length of the longest common prefix of two sequences
CommonLen(p, q) ==
    CHOOSE k \in 0..(IF Len(p) < Len(q) THEN Len(p) ELSE Len(q)) :
        /\ \A i \in 1..k : p[i] = q[i]
        /\ k = Len(p) \/ k = Len(q) \/ p[k + 1] # q[k + 1]

\* path p comes no later than path q in a depth-first walk that follows each
\* directory's listing (p and q as segments)
DepthFirst(p, q) ==
    LET k == CommonLen(p, q)
    IN  IF k = Len(p) THEN TRUE
        ELSE IF k = Len(q) THEN FALSE
        ELSE LET l == ListingAt(JoinWith(SubSeq(p, 1, k), <<"/">>))
             IN  IndexOf(l, p[k + 1]) < IndexOf(l, q[k + 1])

\* the file an item was made from
SourceOf(c) == Split(PathJoin(c.dir, IF c.kind = "file" THEN c.name ELSE S_sitemap_xml), "/")

CreatedItems == [i \in 1..Len(created) |-> created[i].item]

---------------------------------------------------------------------------
(* Claims                                                                  *)

C2_MarkerExpandsToScan ==
    Succeeded =>
        \A d \in EmbeddedDirs :
            (/\ IncludeSitemap
             /\ HasReadSitemap(d)
             /\ \E n \in 1..Len(ContentsAt(d).dom) :
                   /\ NodeName(ContentsAt(d).dom[n]) = "urlset"
                   /\ \E m \in 1..Len(ContentsAt(d).dom[n].children) :
                         ContentsAt(d).dom[n].children[m].type = "directive")
            => /\ \A i \in 1..Len(cb[1].doc.items) : IsEntry(cb[1].doc.items[i])
               /\ \A k \in 1..Len(ListingAt(d)) :
                     (/\ ListingAt(d)[k] # S_sitemap_xml
                      /\ ExtFilter(ListingAt(d)[k], Get(opts, "ext")))
                     => \E i \in 1..Len(trace) :
                           /\ trace[i].op = "stat"
                           /\ trace[i].path = PathJoin(d, ListingAt(d)[k])

\* C3: a failed readdir, stat or readFile is the last filesystem operation of
\* the scan, and the caller's callback has received that error and no
\* Document.
C3_IOFailureAborts ==
    \A i \in 1..Len(trace) :
        trace[i].failed =>
            /\ i = Len(trace)
            /\ pending = {}
            /\ cb = <<[err |-> Err(trace[i].op, trace[i].path), doc |-> Null]>>

\* a stat below the root failed after an entry had been collected
C3_Witness ==
    /\ created # <<>>
    /\ Len(stack) = 0
    /\ \E i \in 1..Len(trace) :
          /\ trace[i].failed /\ trace[i].op = "stat"
          /\ Under(trace[i].path, PathJoin(Root, S_d))

\* C4: when building the entry of a scanned file fails field validation, the
\* caller's callback is invoked with that error and no Document.
C4_ValidationFailureReachesCaller ==
    \A i \in 1..Len(trace) :
        LET name == Last(Split(trace[i].path, "/"))
            built == createSitemapEntry(IF IsIndex(name, opts) THEN <<>> ELSE name,
                                        opts, Stats("file"), IsIndex(name, opts))
        IN  (/\ trace[i].op = "stat" /\ ~trace[i].failed /\ trace[i].kind = "file"
             /\ built.threw)
            => cb = <<[err |-> built.err, doc |-> Null]>>

\* the URL the claim gives an item of an embedded sitemap in directory d
C5_ClaimedUrl(d, url) ==
    IF reProto(url) THEN url
    ELSE LET joined == PathNormalize(JoinWith(<<DirUrl(RelDirs(d)), url.s>>, <<"/">>))
         IN  Str(IF joined[1] = "/" THEN joined ELSE <<"/">> \o joined)

\* the URL getEmbeddedSitemap gives it: below the root the normalized join
\* with the directory's prefix; in the root the URL with one leading slash
\* stripped and one put back, not normalized
C5_AmendedUrl(d, url) ==
    IF reProto(url) THEN url
    ELSE IF d # Root THEN C5_ClaimedUrl(d, url)
    ELSE Str(<<"/">> \o (IF url.s # <<>> /\ url.s[1] = "/" THEN Tail(url.s) ELSE url.s))

NonNumericString(v) ==
    v.t = "string" /\ v.s # <<>> /\ \A i \in 1..Len(v.s) : ~IsDigit(v.s[i])

PriorityAfter(i) == IF i = Len(setlog) THEN sme._priority ELSE setlog[i + 1].before._priority

\* the parts of C6 that do not speak of zero
C6_SetterRules ==
    /\ sme._priority.t = "number" /\ ~IsNaN(sme._priority)
    /\ \A i \in 1..Len(setlog) :
          setlog[i].field = "priority" =>
              /\ Falsy(setlog[i].value) =>
                    ~setlog[i].threw /\ PriorityAfter(i) = setlog[i].before._priority
              /\ NonNumericString(setlog[i].value) =>
                    setlog[i].threw /\ PriorityAfter(i) = setlog[i].before._priority

\* C6 as stated: a falsy value leaves the priority as it was, a non-numeric
\* string fails and leaves it as it was, the priority is always a number, and
\* the priority never becomes 0.
C6_Original == C6_SetterRules /\ sme._priority # Num(0)

\* C6 amended: as stated, but the priority does become 0 when a truthy value
\* that is not a number and whose text parses to zero (the string "0") is
\* assigned, and only then.
C6_PrioritySetter ==
    /\ C6_SetterRules
    /\ \A i \in 1..Len(setlog) :
          (setlog[i].field = "priority" /\ PriorityAfter(i) = Num(0)
           /\ setlog[i].before._priority # Num(0))
          => /\ ~Falsy(setlog[i].value) /\ setlog[i].value.t # "number"
             /\ \E k \in 1..Len(ToStr(setlog[i].value)) : ToStr(setlog[i].value)[k] = "0"
             /\ \A k \in 1..Len(ToStr(setlog[i].value)) :
                   ToStr(setlog[i].value)[k] \in {"0", ".", "-", "+", " "}

\* 0.8 was stored, then 0 and "abc" were assigned and changed nothing
C6_Witness ==
    /\ Len(setlog) = 3
    /\ setlog[1].value = Num(80) /\ setlog[2].value = Num(0)
    /\ setlog[3].value = Str(<<"a", "b", "c">>) /\ setlog[3].threw
    /\ sme._priority = Num(80)

\* C7: at most one filesystem operation is outstanding; operations are issued
\* in the order of a depth-first walk that follows each listing (each one no
\* earlier in that order than the one before it); the entries of a
\* successful scan are in that order.
C7_OneAtATimeDepthFirst ==
    /\ Cardinality(pending) <= 1
    /\ \A i \in 1..(Len(trace) - 1) :
          DepthFirst(Split(trace[i].path, "/"), Split(trace[i + 1].path, "/"))
    /\ \A o \in pending :
          trace # <<>> => DepthFirst(Split(Last(trace).path, "/"), Split(o.path, "/"))
    /\ \A i \in 1..(Len(created) - 1) :
          /\ DepthFirst(SourceOf(created[i]), SourceOf(created[i + 1]))
          /\ SourceOf(created[i]) = SourceOf(created[i + 1])
                => created[i].ix < created[i + 1].ix
    /\ Succeeded => cb[1].doc.items = CreatedItems

\* a scan succeeded with an entry of a subdirectory followed by one of the
\* root
C7_Witness ==
    /\ Succeeded
    /\ \E i, j \in 1..Len(created) :
          i < j /\ created[i].dir # Root /\ created[j].dir = Root

RECURSIVE C9_ClaimedKinds(_)
C9_ClaimedKinds(children) ==
    IF children = <<>> THEN <<>>
    ELSE (IF NodeName(Head(children)) = "url" THEN <<"entry">>
          ELSE IF Head(children).type = "directive" THEN <<"marker">>
          ELSE <<>>)
         \o C9_ClaimedKinds(Tail(children))

\* C9: in child order, a url child of a top-level urlset gives one Entry, a
\* processing-instruction child gives the marker, any other child nothing.
C9_ChildrenToItems ==
    (parsed # Undefined /\ ~parsed.threw) =>
        [i \in 1..Len(parsed.val.items) |->
            IF IsEntry(parsed.val.items[i]) THEN "entry" ELSE "marker"]
        = C9_ClaimedKinds(Flatten([n \in 1..Len(doc) |->
                                      IF NodeName(doc[n]) = "urlset"
                                      THEN doc[n].children ELSE <<>>]))

\* C10: once no filesystem operation of a started generate is outstanding,
\* the caller's callback has been invoked, exactly once, with an error and
\* no Document or with no error and a Document.
C10_CallbackExactlyOnce ==
    /\ Len(cb) <= 1
    /\ (phase = "called" /\ pending = {}) =>
          /\ Len(cb) = 1
          /\ Falsy(cb[1].err) <=> cb[1].doc # Null

===========================================================================
